---- MODULE Spec2Model ----
(***************************************************************************)
(* The failure-inspection helper show_failures of the scikit-learn MNIST   *)
(* notebooks (sklearn-mnist-lc, -nn, -ul) as a state machine.              *)
(*                                                                         *)
(* The helper takes the predictions and the two optional filters as        *)
(* arguments, reads the globals y_test and X_test of the notebook, prints  *)
(* a legend, opens a matplotlib figure and draws one tile per selected     *)
(* misclassified sample.  One action is one statement (or loop test) of    *)
(* the helper; the notebook cells around it are the actions that bind the  *)
(* globals and start or end a call.                                        *)
(*                                                                         *)
(* Python indices are 0-based and kept so: a[i] of the code is a[i + 1]    *)
(* of a TLA+ sequence (see Item).                                          *)
(***************************************************************************)
EXTENDS Integers, Sequences, FiniteSets, TLC

VARIABLES
    y_test,          \* global: ground-truth labels of the test partition
    X_test,          \* global: one image (row) per test sample
    pc,              \* position in the running cell / in show_failures
    pred,            \* argument: the predictions
    trueclass,       \* argument: optional filter on the ground truth
    predictedclass,  \* argument: optional filter on the prediction
    maxtoshow,       \* argument: cap on the number of tiles
    errors,          \* local: result of  pred != y_test
    i,               \* local: loop variable over range(X_test.shape[0])
    ii,              \* local: number of tiles drawn so far
    stdout,          \* lines printed by the running cell
    figs,            \* pyplot state: figures opened by the running cell
    exc,             \* exception that ended the call, or None
    prev,            \* observer: inputs and outcome of one earlier call
    other,           \* frame of the second caller while it is suspended
    kernel,          \* notebook session: cells run so far, names bound by
                     \* the predict cells
    gallery          \* names of the gallery cells of sklearn-mnist-ul

globals == <<y_test, X_test>>
frame   == <<pred, trueclass, predictedclass, maxtoshow, errors, i, ii>>
output  == <<stdout, figs, exc>>
rest    == <<prev, other, kernel, gallery>>
vars    == <<y_test, X_test, pc, pred, trueclass, predictedclass, maxtoshow,
             errors, i, ii, stdout, figs, exc, prev, other, kernel, gallery>>

----------------------------------------------------------------------------
(* Bounds of the model *)

MaxLen  == 2       \* longest label sequence drawn exhaustively
MaxShow == 2       \* largest cap drawn exhaustively
MinShow == 0 - 1   \* smallest (invalid) cap drawn

(* Program constants *)

\* variant: the default of the signature is 9
DefaultMaxToShow_nine == 10 - 1

DefaultMaxToShow == 10     \* maxtoshow=10 in the signature
TileRows         == 28     \* reshape(28, 28)
TileCols         == 28

None    == "None"          \* Python's None
Unbound == 0 - 1           \* a local integer that is not assigned yet

Labels       == {"0", "1", "2"}    \* labels drawn exhaustively
FilterLabels == Labels \cup {"9"}  \* a filter may name any digit class

----------------------------------------------------------------------------
(* Data the notebook can bind *)

SeqsUpTo(S, n) == UNION {[1..k -> S] : k \in 1..n}

\* longer data sets, added to the exhaustive ones: five samples with two
\* failures, and three samples that are all failures
ExampleG  == <<"0", "1", "1", "2", "0">>
ExampleP  == <<"0", "2", "1", "2", "1">>
ExampleG3 == <<"1", "1", "1">>
ExampleP3 == <<"0", "0", "0">>


\* twelve samples of class "0", eleven of them misclassified: more failures
\* than the default cap
LongG == <<"0", "0", "0", "0", "0", "0", "0", "0", "0", "0", "0", "0">>
LongP == <<"1", "1", "1", "0", "1", "2", "1", "1", "1", "1", "1", "1">>

LabelSeqs == SeqsUpTo(Labels, MaxLen) \cup {ExampleG, ExampleG3, LongG}
PredSeqs  == SeqsUpTo(Labels, MaxLen) \cup {ExampleP, ExampleP3, LongP}
Filters   == {None} \cup FilterLabels
Caps      == (MinShow..MaxShow) \cup {DefaultMaxToShow}

\* row k (0-based) of the test partition; rows are pairwise distinct
Row(k) == 100 + k
Rows(n) == [k \in 1..n |-> Row(k - 1)]

----------------------------------------------------------------------------
(* Python / numpy / pyplot primitives used by the helper *)

\* a[k] for a 0-based, non-negative k
Item(a, k) == a[k + 1]
InRange(a, k) == k >= 0 /\ k < Len(a)

\* numpy broadcasting rule for two 1-d shapes
Broadcastable(m, n) == m = n \/ m = 1 \/ n = 1

Bigger(m, n) == IF m >= n THEN m ELSE n

\* element k (1-based) of a 1-d array stretched by broadcasting
Stretch(a, k) == IF Len(a) = 1 THEN a[1] ELSE a[k]

\* variant: the comparison is == instead of !=
NotEqual_eq(a, b) ==
    [k \in 1..Bigger(Len(a), Len(b)) |-> Stretch(a, k) = Stretch(b, k)]

\* a != b, element-wise, for broadcastable shapes
NotEqual(a, b) ==
    [k \in 1..Bigger(Len(a), Len(b)) |-> Stretch(a, k) # Stretch(b, k)]

\* the value bound to errors: an array of booleans, or the scalar True that
\* older numpy returns for shapes that do not broadcast
Array(d)   == [scalar |-> FALSE, data |-> d]
ScalarTrue == [scalar |-> TRUE,  data |-> <<>>]
NoErrors   == Array(<<>>)

\* "{} ({})".format(p, g)  and  "%s (%s)" % (p, g)
\* variant: the arguments of format are exchanged
Format_swapped(p, g) == <<g, " (", p, ")">>

Format(p, g) == <<p, " (", g, ")">>

\* X_test[k,:].reshape(28, 28)
Reshape(img) == [rows |-> TileRows, cols |-> TileCols, data |-> img]

\* the line written by print(...)
Legend(m) == <<"Showing max", m, "first failures. ",
               "The predicted class is shown first and the correct class in parenthesis.">>

NoImage == [row |-> Unbound, pixels |-> Reshape(Unbound)]
NoTitle == <<>>

\* pyplot: the current figure is the last one opened, the current axes the
\* last ones added to it
NewFigure(w, h) == [figsize |-> <<w, h>>, axes |-> <<>>]
NewAxes(nrows, ncols, pos) ==
    [nrows |-> nrows, ncols |-> ncols, pos |-> pos, axis |-> "off",
     image |-> NoImage, title |-> NoTitle]

Gcf == figs[Len(figs)]
Gca == Gcf.axes[Len(Gcf.axes)]

AddAxes(ax) ==
    [figs EXCEPT ![Len(figs)].axes = Append(@, ax)]

\* the axes pyplot creates by itself when the current figure has none
DefaultAxes ==
    [nrows |-> 1, ncols |-> 1, pos |-> 1, axis |-> "on",
     image |-> NoImage, title |-> NoTitle]

SetField(ax, field, v) ==
    IF field = "image" THEN [ax EXCEPT !.image = v]
                       ELSE [ax EXCEPT !.title = v]

\* plt.imshow / plt.title act on the current axes of the current figure
SetOnGca(field, v) ==
    IF Gcf.axes = <<>>
    THEN [figs EXCEPT ![Len(figs)].axes = <<SetField(DefaultAxes, field, v)>>]
    ELSE [figs EXCEPT ![Len(figs)].axes[Len(Gcf.axes)] =
              SetField(@, field, v)]

----------------------------------------------------------------------------
(* A call as an observer notes it, and the frame of a suspended caller *)

\* no call has been noted yet
NoCall ==
    [outcome |-> None, y |-> <<>>, X |-> <<>>, p |-> <<>>, t |-> None,
     q |-> None, m |-> 0, figure |-> <<>>, lines |-> <<>>]

\* the frame of a caller that has not called yet
IdleThread ==
    [pc |-> "idle", pred |-> <<>>, trueclass |-> None, predictedclass |-> None,
     maxtoshow |-> 0, errors |-> NoErrors, i |-> Unbound, ii |-> Unbound,
     exc |-> None]

\* a name of the notebook that no cell has bound yet, and a bound one
NotBound == [bound |-> FALSE, value |-> <<>>]
Bound(v) == [bound |-> TRUE, value |-> v]

\* the names the predict cells of the three notebooks bind
Names == {"pred_lr", "pred_lsvm", "predictions", "predictions_reduced"}

\* a session in which no cell of a notebook has run
NoKernel == [notebook |-> None, cell |-> 0, names |-> [n \in Names |-> NotBound]]

\* an estimator name of sklearn-mnist-ul that no cell has bound yet
NoEstimator == [class |-> None, labels_ |-> <<>>]

\* sklearn-mnist-ul before its clustering and anomaly cells have run: no
\* estimator is fitted, predictions and n_clusters are not bound, no
\* gallery cell is running
NoGallery ==
    [pc |-> "idle", kind |-> None, exc |-> None,
     kmeans |-> NoEstimator, hclust |-> NoEstimator,
     isofor |-> NoEstimator, lof |-> NoEstimator,
     predictions |-> <<>>, n_clusters |-> Unbound,
     n_img_per_row |-> Unbound, anolabels |-> <<>>,
     i |-> Unbound, j |-> Unbound, ix |-> Unbound, iy |-> Unbound,
     X_sub |-> <<>>, img |-> <<>>, shown |-> <<>>]

----------------------------------------------------------------------------
(* Initial state: the data cell has run, no call is in progress *)

IdleFrame ==
    /\ pred = <<>>
    /\ trueclass = None
    /\ predictedclass = None
    /\ maxtoshow = 0
    /\ errors = NoErrors
    /\ i = Unbound
    /\ ii = Unbound

Init ==
    /\ y_test \in LabelSeqs
    /\ X_test = Rows(Len(y_test))
    /\ pc = "idle"
    /\ IdleFrame
    /\ stdout = <<>>
    /\ figs = <<>>
    /\ exc = None
    /\ prev = NoCall
    /\ other = IdleThread
    /\ kernel = NoKernel
    /\ gallery = NoGallery

Raise(e) ==
    /\ pc' = "raised"
    /\ exc' = e

----------------------------------------------------------------------------
(* Notebook cells *)

\* the data cell: binds X_test and y_test to a (new) test partition
SplitCell ==
    /\ pc = "idle"
    /\ y_test' \in LabelSeqs
    /\ X_test' = Rows(Len(y_test'))
    /\ UNCHANGED <<pc, frame, output, rest>>

\* a cell that calls show_failures(p, trueclass=t, predictedclass=q,
\* maxtoshow=m); the arguments are bound, nothing else has run yet
Call ==
    /\ pc = "idle"
    /\ \E p \in PredSeqs, t \in Filters, q \in Filters, m \in Caps :
        /\ pred' = p
        /\ trueclass' = t
        /\ predictedclass' = q
        /\ maxtoshow' = m
    /\ pc' = "errors"
    /\ UNCHANGED <<globals, rest, errors, i, ii, output>>

\* a cell that calls show_failures without maxtoshow, as every call in the
\* notebooks does: the parameter takes its default
CallDefault ==
    /\ pc = "idle"
    /\ \E p \in PredSeqs, t \in Filters, q \in Filters :
        /\ pred' = p
        /\ trueclass' = t
        /\ predictedclass' = q
    /\ maxtoshow' = DefaultMaxToShow
    /\ pc' = "errors"
    /\ UNCHANGED <<globals, rest, errors, i, ii, output>>

\* variant: the iterator over the indices is created once and shared by all
\* calls, so the end of a call does not restart it
CellEnd_sharediter ==
    /\ pc \in {"done", "raised"}
    /\ pc' = "idle"
    /\ pred' = <<>>
    /\ trueclass' = None
    /\ predictedclass' = None
    /\ maxtoshow' = 0
    /\ errors' = NoErrors
    /\ i' = i
    /\ ii' = Unbound
    /\ stdout' = <<>>
    /\ figs' = <<>>
    /\ exc' = None
    /\ UNCHANGED <<globals, rest>>

\* the cell is over (the call returned or its exception reached the
\* notebook): the frame is dropped and the next cell gets a fresh output area
CellEnd ==
    /\ pc \in {"done", "raised"}
    /\ pc' = "idle"
    /\ pred' = <<>>
    /\ trueclass' = None
    /\ predictedclass' = None
    /\ maxtoshow' = 0
    /\ errors' = NoErrors
    /\ i' = Unbound
    /\ ii' = Unbound
    /\ stdout' = <<>>
    /\ figs' = <<>>
    /\ exc' = None
    /\ UNCHANGED <<globals, rest>>

----------------------------------------------------------------------------
(* show_failures, statement by statement *)

\* variant: shapes that do not broadcast are compared over their common
\* prefix (as zip would)
ComputeErrors_truncate ==
    /\ pc = "errors"
    /\ errors' = Array(
          IF Broadcastable(Len(pred), Len(y_test))
          THEN NotEqual(pred, y_test)
          ELSE [k \in 1..(IF Len(pred) <= Len(y_test) THEN Len(pred)
                                                      ELSE Len(y_test)) |->
                   pred[k] # y_test[k]])
    /\ pc' = "print"
    /\ UNCHANGED <<globals, rest, pred, trueclass, predictedclass, maxtoshow, i, ii,
                   output>>

\* errors = pred != y_test
\* Shapes that do not broadcast make numpy either raise ValueError (1.25 and
\* later) or return the scalar True (earlier releases): both can happen.
ComputeErrors ==
    /\ pc = "errors"
    /\ IF Broadcastable(Len(pred), Len(y_test))
       THEN /\ errors' = Array(NotEqual(pred, y_test))
            /\ pc' = "print"
            /\ exc' = exc
       ELSE \/ /\ errors' = ScalarTrue
               /\ pc' = "print"
               /\ exc' = exc
            \/ /\ Raise("ValueError")
               /\ errors' = errors
    /\ UNCHANGED <<globals, rest, pred, trueclass, predictedclass, maxtoshow, i, ii,
                   stdout, figs>>

\* variant: the legend is written by two print calls
PrintLegend_twice ==
    /\ pc = "print"
    /\ stdout' = Append(Append(stdout, <<"Showing max", maxtoshow,
                                         "first failures. ">>),
                        <<"The predicted class is shown first and the correct class in parenthesis.">>)
    /\ pc' = "figure"
    /\ UNCHANGED <<globals, rest, frame, figs, exc>>

\* print('Showing max', maxtoshow, 'first failures. ' ...)
PrintLegend ==
    /\ pc = "print"
    /\ stdout' = Append(stdout, Legend(maxtoshow))
    /\ pc' = "figure"
    /\ UNCHANGED <<globals, rest, frame, figs, exc>>

\* ii = 0 ; plt.figure(figsize=(maxtoshow, 1))
\* A figure size that is not positive is rejected with ValueError by newer
\* matplotlib and accepted by older releases: both can happen.
OpenFigure ==
    /\ pc = "figure"
    /\ ii' = 0
    /\ \/ /\ figs' = Append(figs, NewFigure(maxtoshow, 1))
          /\ pc' = "for"
          /\ exc' = exc
       \/ /\ maxtoshow <= 0
          /\ Raise("ValueError")
          /\ figs' = figs
    /\ UNCHANGED <<globals, rest, pred, trueclass, predictedclass, maxtoshow, errors,
                   i, stdout>>

\* variant: the cap is passed to range as its step
\* (range(0, X_test.shape[0], maxtoshow))
ForNext_step ==
    /\ pc = "for"
    /\ IF (IF i = Unbound THEN 0 ELSE i + maxtoshow) < Len(X_test)
       THEN /\ i' = (IF i = Unbound THEN 0 ELSE i + maxtoshow)
            /\ pc' = "cap"
       ELSE /\ i' = i
            /\ pc' = "done"
    /\ UNCHANGED <<globals, rest, pred, trueclass, predictedclass, maxtoshow,
                   errors, ii, output>>

\* variant: the loop runs one index too far
ForNext_past ==
    /\ pc = "for"
    /\ IF i + 1 <= Len(X_test)
       THEN /\ i' = i + 1
            /\ pc' = "cap"
       ELSE /\ i' = i
            /\ pc' = "done"
    /\ UNCHANGED <<globals, rest, pred, trueclass, predictedclass, maxtoshow, errors,
                   ii, output>>

\* for i in range(X_test.shape[0]):   the next index, or the end of the loop
ForNext ==
    /\ pc = "for"
    /\ IF i + 1 < Len(X_test)
       THEN /\ i' = i + 1
            /\ pc' = "cap"
       ELSE /\ i' = i
            /\ pc' = "done"
    /\ UNCHANGED <<globals, rest, pred, trueclass, predictedclass, maxtoshow, errors,
                   ii, output>>

\* variant: a reached cap skips the sample instead of leaving the loop
\* (if ii>=maxtoshow: continue)
CheckCap_continue ==
    /\ pc = "cap"
    /\ pc' = IF ii >= maxtoshow THEN "for" ELSE "iserror"
    /\ UNCHANGED <<globals, rest, frame, output>>

\* variant: the test is ii > maxtoshow
CheckCap_gt ==
    /\ pc = "cap"
    /\ pc' = IF ii > maxtoshow THEN "done" ELSE "iserror"
    /\ UNCHANGED <<globals, rest, frame, output>>

\* if ii>=maxtoshow: break
CheckCap ==
    /\ pc = "cap"
    /\ pc' = IF ii >= maxtoshow THEN "done" ELSE "iserror"
    /\ UNCHANGED <<globals, rest, frame, output>>

\* variant: a failure that a filter rejects still uses up one slot of the cap
\* (the test counts failures seen, not tiles drawn)
CheckError_counting ==
    /\ pc = "iserror"
    /\ IF errors.scalar
       THEN Raise("TypeError")
       ELSE IF ~InRange(errors.data, i)
       THEN Raise("IndexError")
       ELSE /\ pc' = IF ~Item(errors.data, i) THEN "for"
                     ELSE IF Cardinality({k \in 0..(i - 1) :
                                 Item(errors.data, k)}) >= maxtoshow
                     THEN "done" ELSE "trueclass"
            /\ exc' = exc
    /\ UNCHANGED <<globals, rest, frame, stdout, figs>>

\* if errors[i]:
\* indexing the scalar True is a TypeError, an index past the end of the
\* array an IndexError
CheckError ==
    /\ pc = "iserror"
    /\ IF errors.scalar
       THEN Raise("TypeError")
       ELSE IF ~InRange(errors.data, i)
       THEN Raise("IndexError")
       ELSE /\ pc' = IF Item(errors.data, i) THEN "trueclass" ELSE "for"
            /\ exc' = exc
    /\ UNCHANGED <<globals, rest, frame, stdout, figs>>

\* variant: the ground-truth filter is tested against the prediction
CheckTrueClass_onpred ==
    /\ pc = "trueclass"
    /\ IF trueclass = None
       THEN /\ pc' = "predictedclass"
            /\ exc' = exc
       ELSE IF ~InRange(pred, i)
       THEN Raise("IndexError")
       ELSE /\ pc' = IF Item(pred, i) # trueclass THEN "for"
                                                  ELSE "predictedclass"
            /\ exc' = exc
    /\ UNCHANGED <<globals, rest, frame, stdout, figs>>

\* variant: continue goes back to the top of the loop body without taking
\* the next index from range()
CheckTrueClass_stall ==
    /\ pc = "trueclass"
    /\ IF trueclass = None
       THEN /\ pc' = "predictedclass"
            /\ exc' = exc
       ELSE IF ~InRange(y_test, i)
       THEN Raise("IndexError")
       ELSE /\ pc' = IF Item(y_test, i) # trueclass THEN "cap"
                                                    ELSE "predictedclass"
            /\ exc' = exc
    /\ UNCHANGED <<globals, rest, frame, stdout, figs>>

\* if trueclass is not None and y_test[i] != trueclass: continue
CheckTrueClass ==
    /\ pc = "trueclass"
    /\ IF trueclass = None
       THEN /\ pc' = "predictedclass"
            /\ exc' = exc
       ELSE IF ~InRange(y_test, i)
       THEN Raise("IndexError")
       ELSE /\ pc' = IF Item(y_test, i) # trueclass THEN "for"
                                                    ELSE "predictedclass"
            /\ exc' = exc
    /\ UNCHANGED <<globals, rest, frame, stdout, figs>>

\* variant: a sample that passed the ground-truth filter is not tested
\* against the prediction filter any more (the filters act as a disjunction)
CheckPredictedClass_or ==
    /\ pc = "predictedclass"
    /\ IF predictedclass = None \/ trueclass # None
       THEN /\ pc' = "subplot"
            /\ exc' = exc
       ELSE IF ~InRange(pred, i)
       THEN Raise("IndexError")
       ELSE /\ pc' = IF Item(pred, i) # predictedclass THEN "for"
                                                       ELSE "subplot"
            /\ exc' = exc
    /\ UNCHANGED <<globals, rest, frame, stdout, figs>>

\* if predictedclass is not None and pred[i] != predictedclass: continue
CheckPredictedClass ==
    /\ pc = "predictedclass"
    /\ IF predictedclass = None
       THEN /\ pc' = "subplot"
            /\ exc' = exc
       ELSE IF ~InRange(pred, i)
       THEN Raise("IndexError")
       ELSE /\ pc' = IF Item(pred, i) # predictedclass THEN "for"
                                                       ELSE "subplot"
            /\ exc' = exc
    /\ UNCHANGED <<globals, rest, frame, stdout, figs>>

\* variant: the position passed to pyplot is ii, which starts at 0
Subplot_zero ==
    /\ pc = "subplot"
    /\ IF ii \in 1..maxtoshow
       THEN /\ figs' = AddAxes(NewAxes(1, maxtoshow, ii))
            /\ pc' = "imshow"
            /\ exc' = exc
       ELSE /\ Raise("ValueError")
            /\ figs' = figs
    /\ UNCHANGED <<globals, rest, frame, stdout>>

\* plt.subplot(1, maxtoshow, ii+1) ; plt.axis('off')
\* pyplot rejects a position outside 1..ncols with ValueError
Subplot ==
    /\ pc = "subplot"
    /\ IF ii + 1 \in 1..maxtoshow
       THEN /\ figs' = AddAxes(NewAxes(1, maxtoshow, ii + 1))
            /\ pc' = "imshow"
            /\ exc' = exc
       ELSE /\ Raise("ValueError")
            /\ figs' = figs
    /\ UNCHANGED <<globals, rest, frame, stdout>>

\* variant: the row is inverted in place before it is shown (X_test[i,:] *= -1),
\* so X_test itself is changed
Imshow_inplace ==
    /\ pc = "imshow"
    /\ IF InRange(X_test, i)
       THEN /\ figs' = SetOnGca("image",
                         [row |-> i, pixels |-> Reshape(Item(X_test, i))])
            /\ X_test' = [X_test EXCEPT ![i + 1] = 0 - @]
            /\ pc' = "title"
            /\ exc' = exc
       ELSE /\ Raise("IndexError")
            /\ figs' = figs
            /\ X_test' = X_test
    /\ UNCHANGED <<y_test, rest, frame, stdout>>

\* plt.imshow(X_test[i,:].reshape(28, 28), cmap="gray")
Imshow ==
    /\ pc = "imshow"
    /\ IF InRange(X_test, i)
       THEN /\ figs' = SetOnGca("image",
                         [row |-> i, pixels |-> Reshape(Item(X_test, i))])
            /\ pc' = "title"
            /\ exc' = exc
       ELSE /\ Raise("IndexError")
            /\ figs' = figs
    /\ UNCHANGED <<globals, rest, frame, stdout>>

\* plt.title("{} ({})".format(pred[i], y_test[i]))
Title ==
    /\ pc = "title"
    /\ IF InRange(pred, i) /\ InRange(y_test, i)
       THEN /\ figs' = SetOnGca("title", Format(Item(pred, i), Item(y_test, i)))
            /\ pc' = "incr"
            /\ exc' = exc
       ELSE /\ Raise("IndexError")
            /\ figs' = figs
    /\ UNCHANGED <<globals, rest, frame, stdout>>

\* variant: the tile counter is advanced by two
Incr_double ==
    /\ pc = "incr"
    /\ ii' = ii + 2
    /\ pc' = "for"
    /\ UNCHANGED <<globals, rest, pred, trueclass, predictedclass, maxtoshow, errors,
                   i, output>>

\* variant: the tile counter is not advanced
Incr_stuck ==
    /\ pc = "incr"
    /\ ii' = ii
    /\ pc' = "for"
    /\ UNCHANGED <<globals, rest, pred, trueclass, predictedclass, maxtoshow, errors,
                   i, output>>

\* ii = ii + 1
Incr ==
    /\ pc = "incr"
    /\ ii' = ii + 1
    /\ pc' = "for"
    /\ UNCHANGED <<globals, rest, pred, trueclass, predictedclass, maxtoshow, errors,
                   i, output>>

ShowFailuresStep ==
    \/ ComputeErrors \/ PrintLegend \/ OpenFigure \/ ForNext \/ CheckCap
    \/ CheckError \/ CheckTrueClass \/ CheckPredictedClass
    \/ Subplot \/ Imshow \/ Title \/ Incr

Next == SplitCell \/ Call \/ CallDefault \/ CellEnd \/ ShowFailuresStep

Spec == Init /\ [][Next]_vars

\* The calls of the termination check: every prediction sequence and every
\* cap, each filter unset or set to one class that the data rejects somewhere
FairTrue      == {None, "1"}
FairPredicted == {None, "2"}

CallFair ==
    /\ pc = "idle"
    /\ \E p \in PredSeqs, t \in FairTrue, q \in FairPredicted, m \in Caps :
        /\ pred' = p
        /\ trueclass' = t
        /\ predictedclass' = q
        /\ maxtoshow' = m
    /\ pc' = "errors"
    /\ UNCHANGED <<globals, rest, errors, i, ii, output>>

NextFair == SplitCell \/ CallFair \/ CellEnd \/ ShowFailuresStep

\* the interpreter runs the statements of a call one after the other until
\* the call returns or raises
SpecFair == Init /\ [][NextFair]_vars /\ WF_vars(ShowFailuresStep)

TypeOK ==
    /\ y_test \in LabelSeqs
    /\ pc \in {"idle", "errors", "print", "figure", "for", "cap", "iserror",
               "trueclass", "predictedclass", "subplot", "imshow", "title",
               "incr", "done", "raised"}
    /\ exc \in {None, "ValueError", "TypeError", "IndexError"}
    /\ i \in Unbound..Len(X_test)
    /\ ii \in Unbound..Len(X_test)
    /\ prev = NoCall
    /\ other = IdleThread
    /\ kernel = NoKernel
    /\ gallery = NoGallery
----------------------------------------------------------------------------
(* What a call has selected so far, read off the figure it draws into *)

Tiles == IF figs = <<>> THEN <<>> ELSE Gcf.axes

Drawn(ax)  == ax.image # NoImage      \* imshow has put a sample on the tile
Titled(ax) == ax.title # NoTitle      \* the tile is complete

\* the labels a tile shows, read back from its title "p (g)"
ShownPred(ax) == ax.title[1]
ShownTrue(ax) == ax.title[3]

\* the entry (i, p, g) of a complete tile
Entry(ax) == <<ax.image.row, ShownPred(ax), ShownTrue(ax)>>

TitledTiles == SelectSeq(Tiles, Titled)
Result == [k \in 1..Len(TitledTiles) |-> Entry(TitledTiles[k])]

InCall == pc # "idle"
ValidCall == InCall /\ Len(pred) = Len(y_test) /\ maxtoshow > 0

\* index k (0-based) is a failure that passes both filters
Matching(k) ==
    /\ Item(pred, k) # Item(y_test, k)
    /\ trueclass # None => Item(y_test, k) = trueclass
    /\ predictedclass # None => Item(pred, k) = predictedclass

Matches == {k \in 0..(Len(y_test) - 1) : Matching(k)}

\* the number of matching failures before index k
Rank(k) == Cardinality({j \in Matches : j < k})

Smaller(m, n) == IF m <= n THEN m ELSE n

\* the first min(maxtoshow, m) matching failures, in index order
Expected ==
    [n \in 1..Smaller(maxtoshow, Cardinality(Matches)) |->
        LET k == CHOOSE j \in Matches : Rank(j) = n - 1
        IN  <<k, Item(pred, k), Item(y_test, k)>>]

----------------------------------------------------------------------------
(* Claims *)

\* C1: for equal-length y_test and pred and a positive cap, every tile
\* shows a misclassified sample, and the labels in its title are the
\* prediction and the ground truth at the index of the sample it shows.
C1_SelectedAreFailures ==
    ValidCall =>
        \A n \in 1..Len(Tiles) :
            LET ax == Tiles[n] IN
            /\ Drawn(ax) =>
                /\ InRange(y_test, ax.image.row)
                /\ ax.image.pixels = Reshape(Item(X_test, ax.image.row))
                /\ Item(pred, ax.image.row) # Item(y_test, ax.image.row)
            /\ Titled(ax) =>
                /\ ShownPred(ax) # ShownTrue(ax)
                /\ ShownPred(ax) = Item(pred, ax.image.row)
                /\ ShownTrue(ax) = Item(y_test, ax.image.row)

\* a finished valid call that drew two tiles and passed over a correct sample
C1_Witness ==
    /\ ValidCall
    /\ pc = "done"
    /\ Len(Result) = 2
    /\ \E k \in 0..(Len(y_test) - 1) : Item(pred, k) = Item(y_test, k)

\* C2: when trueclass is set, every tile shows a sample whose ground truth
\* is trueclass, whether or not predictedclass is set as well.
C2_TrueClassFilter ==
    (InCall /\ trueclass # None) =>
        \A n \in 1..Len(Tiles) :
            LET ax == Tiles[n] IN
            /\ Drawn(ax) => Item(y_test, ax.image.row) = trueclass
            /\ Titled(ax) => ShownTrue(ax) = trueclass

\* a finished call with trueclass set (and predictedclass not) that drew a
\* tile and rejected a failure of another class
C2_Witness ==
    /\ pc = "done"
    /\ trueclass # None
    /\ predictedclass = None
    /\ Len(Result) >= 1
    /\ \E k \in 0..(Len(y_test) - 1) :
        /\ InRange(pred, k)
        /\ Item(pred, k) # Item(y_test, k)
        /\ Item(y_test, k) # trueclass

\* C3: when predictedclass is set, every tile shows a sample predicted as
\* predictedclass; when both filters are set every tile satisfies both.
C3_PredictedClassFilter ==
    (InCall /\ predictedclass # None) =>
        \A n \in 1..Len(Tiles) :
            LET ax == Tiles[n] IN
            /\ Drawn(ax) => Item(pred, ax.image.row) = predictedclass
            /\ Titled(ax) => ShownPred(ax) = predictedclass
            /\ (Titled(ax) /\ trueclass # None) =>
                  /\ ShownPred(ax) = predictedclass
                  /\ ShownTrue(ax) = trueclass

\* a finished call with both filters set that drew a tile and rejected a
\* failure that passes the ground-truth filter only
C3_Witness ==
    /\ pc = "done"
    /\ trueclass # None
    /\ predictedclass # None
    /\ Len(Result) >= 1
    /\ \E k \in 0..(Len(y_test) - 1) :
        /\ InRange(pred, k)
        /\ Item(pred, k) # Item(y_test, k)
        /\ Item(y_test, k) = trueclass
        /\ Item(pred, k) # predictedclass

\* C4: for a positive cap the number of tiles never exceeds maxtoshow and
\* the indices of the samples shown are strictly increasing.
C4_CapAndOrder ==
    (InCall /\ maxtoshow > 0) =>
        /\ Len(Tiles) <= maxtoshow
        /\ \A m, n \in 1..Len(Tiles) :
            (m < n /\ Drawn(Tiles[m]) /\ Drawn(Tiles[n])) =>
                Tiles[m].image.row < Tiles[n].image.row

\* a call stopped by the cap with two tiles while a later failure remains
C4_Witness ==
    /\ ValidCall
    /\ pc = "done"
    /\ maxtoshow = 2
    /\ Len(Tiles) = 2
    /\ Cardinality(Matches) > 2

\* C5: a finished valid call has selected exactly the first
\* min(maxtoshow, m) of the m matching failures, in index order; the worked
\* examples give the stated results.
C5_FirstMatches ==
    (ValidCall /\ pc = "done") =>
        /\ Result = Expected
        /\ Len(Tiles) = Len(Result)
        /\ (y_test = ExampleG /\ pred = ExampleP /\ predictedclass = None
              /\ maxtoshow = DefaultMaxToShow) =>
             /\ trueclass = None =>
                  Result = << <<1, "2", "1">>, <<4, "1", "0">> >>
             /\ trueclass = "1" => Result = << <<1, "2", "1">> >>
        /\ (y_test = ExampleG3 /\ pred = ExampleP3 /\ trueclass = None
              /\ predictedclass = None /\ maxtoshow = 2) =>
             Result = << <<0, "0", "1">>, <<1, "0", "1">> >>

\* a finished call in which a failure rejected by a filter precedes the
\* failure that fills the cap
C5_Witness ==
    /\ ValidCall
    /\ pc = "done"
    /\ maxtoshow = 1
    /\ Len(Result) = 1
    /\ \E k \in 0..(Result[1][1] - 1) :
        /\ Item(pred, k) # Item(y_test, k)
        /\ ~Matching(k)

\* C6 as stated: a call with y_test and pred of different lengths fails
\* instead of returning (here for a positive cap).
C6_MismatchFails ==
    (pc = "done" /\ maxtoshow > 0) => Len(pred) = Len(y_test)

\* C6 amended: there is no length check.  Lengths that differ and do not
\* broadcast never draw a tile and, for a positive cap, never return; when
\* one of the two has length 1 it is broadcast, only index 0 can get a
\* complete tile, and the call can return normally.
C6_NoLengthCheck ==
    (InCall /\ Len(pred) # Len(y_test)) =>
        /\ ~Broadcastable(Len(pred), Len(y_test)) =>
              /\ Tiles = <<>>
              /\ pc = "done" => maxtoshow <= 0
              /\ pc = "raised" => exc \in {"ValueError", "TypeError"}
        /\ \A n \in 1..Len(Tiles) :
              Titled(Tiles[n]) =>
                  /\ Tiles[n].image.row = 0
                  /\ ShownPred(Tiles[n]) = Item(pred, 0)
                  /\ ShownTrue(Tiles[n]) = Item(y_test, 0)

\* a call with different lengths that returned normally with a tile
C6_Witness ==
    /\ pc = "done"
    /\ maxtoshow > 0
    /\ Len(pred) # Len(y_test)
    /\ Len(Result) = 1

\* C7 as stated: a call with maxtoshow <= 0 fails instead of returning
\* (here for equal lengths).
C7_NonPositiveCapFails ==
    (pc = "done" /\ Len(pred) = Len(y_test)) => maxtoshow > 0

\* C7 amended: with maxtoshow <= 0 nothing is selected: no label of any
\* index is examined and no tile is drawn; the call returns normally with an
\* empty figure unless a library call raises ValueError before the loop.
C7_NonPositiveCapSelectsNothing ==
    (InCall /\ maxtoshow <= 0) =>
        /\ Tiles = <<>>
        /\ pc \notin {"iserror", "trueclass", "predictedclass", "subplot",
                      "imshow", "title", "incr"}
        /\ pc = "raised" => (exc = "ValueError" /\ i = Unbound)

\* a call with equal lengths and a non-positive cap that returned normally,
\* leaving an empty figure
C7_Witness ==
    /\ pc = "done"
    /\ maxtoshow <= 0
    /\ Len(pred) = Len(y_test)
    /\ Len(figs) = 1
    /\ Tiles = <<>>

\* C8: a valid call in which no index is a matching failure raises nothing
\* and draws no tile.
C8_NoMatchIsEmpty ==
    (ValidCall /\ Matches = {}) =>
        /\ pc # "raised"
        /\ exc = None
        /\ Tiles = <<>>
        /\ pc \notin {"subplot", "imshow", "title", "incr"}

\* the worked example: failures exist, predictedclass = "9" rejects them
\* all, and the call has returned
C8_Witness ==
    /\ pc = "done"
    /\ y_test = ExampleG
    /\ pred = ExampleP
    /\ trueclass = None
    /\ predictedclass = "9"
    /\ maxtoshow = DefaultMaxToShow
    /\ Result = <<>>

\* C9 as stated: a call with different lengths or a non-positive cap that
\* ends in an error has examined no index and drawn no tile.
C9_ErrorsBeforeScan ==
    (pc = "raised" /\ (Len(pred) # Len(y_test) \/ maxtoshow <= 0)) =>
        (i = Unbound /\ Tiles = <<>>)

\* C9 amended: a ValueError (from the comparison of shapes that do not
\* broadcast, or from plt.figure for a non-positive cap) is raised before
\* the loop: no index is examined, no tile drawn.  Any other error is
\* raised inside the loop, and only when the lengths differ.
C9_ErrorPlacement ==
    pc = "raised" =>
        /\ exc = "ValueError" => (i = Unbound /\ Tiles = <<>>)
        /\ exc # "ValueError" =>
              /\ exc \in {"TypeError", "IndexError"}
              /\ i # Unbound
              /\ Len(pred) # Len(y_test)

\* plt.figure rejected a non-positive cap: the legend is printed, the loop
\* has not started
C9_Witness ==
    /\ pc = "raised"
    /\ exc = "ValueError"
    /\ maxtoshow <= 0
    /\ Len(pred) = Len(y_test)
    /\ Len(stdout) = 1
    /\ i = Unbound

\* C10 as stated: a call leaves the output stream and the pyplot state as
\* they were when the cell started.
C10_NoSideEffects ==
    InCall => (stdout = <<>> /\ figs = <<>>)

AfterFigure == {"for", "cap", "iserror", "trueclass", "predictedclass",
                "subplot", "imshow", "title", "incr", "done"}
AfterPrint  == AfterFigure \cup {"figure"}

\* C10 amended: no statement of show_failures assigns a global or an
\* argument, but a call writes exactly one legend line to the output stream
\* and opens exactly one figure, and what its tiles show is read from the
\* globals y_test and X_test.
C10_OutputButNoAssignment ==
    /\ [][ShowFailuresStep =>
            UNCHANGED <<y_test, X_test, pred, trueclass, predictedclass,
                        maxtoshow>>]_vars
    /\ [](pc \in AfterPrint => stdout = <<Legend(maxtoshow)>>)
    /\ [](pc \in AfterFigure =>
            (Len(figs) = 1 /\ figs[1].figsize = <<maxtoshow, 1>>))
    /\ [](\A n \in 1..Len(Tiles) :
            /\ Drawn(Tiles[n]) =>
                 Tiles[n].image.pixels = Reshape(Item(X_test, Tiles[n].image.row))
            /\ Titled(Tiles[n]) =>
                 ShownTrue(Tiles[n]) = Item(y_test, Tiles[n].image.row))

\* a finished call: one legend line, one figure, at least one tile
C10_Witness ==
    /\ pc = "done"
    /\ Len(stdout) = 1
    /\ Len(figs) = 1
    /\ Len(Tiles) >= 1

\* C11: no statement of show_failures changes the ground-truth labels, the
\* feature matrix or the predictions it was given, and the end of the call
\* (normal or by an exception) leaves the two globals as they are.
C11_InputsNotMutated ==
    /\ [][ShowFailuresStep => (y_test' = y_test /\ X_test' = X_test
                                /\ pred' = pred)]_vars
    /\ [][CellEnd => (y_test' = y_test /\ X_test' = X_test)]_vars

\* a call that drew a tile and then ended with an exception
C11_Witness ==
    /\ pc = "raised"
    /\ Len(Tiles) >= 1
    /\ Drawn(Tiles[1])

----------------------------------------------------------------------------
(* Two calls in one notebook session.  An observer notes the inputs and the
   outcome of one finished call (prev); any number of calls and data cells
   may run before and after it.  The inputs are drawn from a few data sets. *)

PairLabelSeqs == {ExampleG, ExampleG3}
PairPredSeqs  == {ExampleP, ExampleP3, <<"0">>}
PairTrue      == {None, "1"}
PairPredicted == {None, "2"}
PairCaps      == {1, 2, DefaultMaxToShow}

\* the entries (i, p, g) of the complete tiles among tiles
EntriesOf(tiles) ==
    LET tt == SelectSeq(tiles, Titled)
    IN  [k \in 1..Len(tt) |-> Entry(tt[k])]

InitPair ==
    /\ y_test \in PairLabelSeqs
    /\ Init

SplitCellPair ==
    /\ SplitCell
    /\ y_test' \in PairLabelSeqs

CallPair ==
    /\ pc = "idle"
    /\ \E p \in PairPredSeqs, t \in PairTrue, q \in PairPredicted,
          m \in PairCaps :
        /\ pred' = p
        /\ trueclass' = t
        /\ predictedclass' = q
        /\ maxtoshow' = m
    /\ pc' = "errors"
    /\ UNCHANGED <<globals, rest, errors, i, ii, output>>

\* the cell is over, as in CellEnd, and the observer notes the call
Remember ==
    /\ pc \in {"done", "raised"}
    /\ prev = NoCall
    /\ prev' = [outcome |-> IF pc = "done" THEN "returned" ELSE exc,
                y |-> y_test, X |-> X_test, p |-> pred, t |-> trueclass,
                q |-> predictedclass, m |-> maxtoshow,
                figure |-> Tiles, lines |-> stdout]
    /\ pc' = "idle"
    /\ pred' = <<>>
    /\ trueclass' = None
    /\ predictedclass' = None
    /\ maxtoshow' = 0
    /\ errors' = NoErrors
    /\ i' = Unbound
    /\ ii' = Unbound
    /\ stdout' = <<>>
    /\ figs' = <<>>
    /\ exc' = None
    /\ UNCHANGED <<globals, other, kernel, gallery>>

NextPair == SplitCellPair \/ CallPair \/ Remember \/ CellEnd
               \/ ShowFailuresStep

SpecPair == InitPair /\ [][NextPair]_vars

Ended == pc \in {"done", "raised"}

\* the call that has just ended got the inputs of the noted call, except
\* possibly the cap
SameDataAndFilters ==
    /\ prev.outcome # None
    /\ Ended
    /\ prev.y = y_test
    /\ prev.X = X_test
    /\ prev.p = pred
    /\ prev.t = trueclass
    /\ prev.q = predictedclass

\* C12: a call that gets the inputs of an earlier call (same y_test, X_test,
\* predictions, filters and cap) draws the same tiles, whatever ran in
\* between; when the shapes broadcast it also ends the same way and prints
\* the same line.
C12_Idempotent ==
    (SameDataAndFilters /\ prev.m = maxtoshow) =>
        /\ prev.figure = Tiles
        /\ EntriesOf(prev.figure) = Result
        /\ Broadcastable(Len(pred), Len(y_test)) =>
              /\ prev.lines = stdout
              /\ prev.outcome = (IF pc = "done" THEN "returned" ELSE exc)

\* the second of two calls with the same inputs has returned with two tiles,
\* the first one having been noted
C12_Witness ==
    /\ SameDataAndFilters
    /\ prev.m = maxtoshow
    /\ pc = "done"
    /\ Len(Result) = 2
    /\ prev.outcome = "returned"

IsPrefix(a, b) ==
    /\ Len(a) <= Len(b)
    /\ \A k \in 1..Len(a) : a[k] = b[k]

\* C19: of two calls that return and differ only in the cap, both caps being
\* positive, the one with the smaller cap selects a prefix of what the other
\* selects.
C19_PrefixInCap ==
    (SameDataAndFilters /\ pc = "done" /\ prev.outcome = "returned"
       /\ prev.m > 0 /\ maxtoshow > 0) =>
        /\ prev.m <= maxtoshow => IsPrefix(EntriesOf(prev.figure), Result)
        /\ maxtoshow <= prev.m => IsPrefix(Result, EntriesOf(prev.figure))

\* a call with cap 1 was noted and a later call on the same inputs with a
\* larger cap has returned with one more tile
C19_Witness ==
    /\ SameDataAndFilters
    /\ pc = "done"
    /\ prev.outcome = "returned"
    /\ prev.m = 1
    /\ maxtoshow > 1
    /\ Len(EntriesOf(prev.figure)) = 1
    /\ Len(Result) = 2

----------------------------------------------------------------------------
(* Two callers in one process.  One of them runs (its frame is in the frame
   variables), the other is suspended (its frame is in other); the
   interpreter can switch between two statements.  Both read the same
   globals and both go through the one pyplot state and output stream. *)

ConcLabelSeqs == {<<"0", "0">>}
ConcPredSeqs  == {<<"1", "2">>, <<"0", "1">>}
ConcTrue      == {None}
ConcPredicted == {None, "2"}
ConcCaps      == {1, 2}

ThisThread ==
    [pc |-> pc, pred |-> pred, trueclass |-> trueclass,
     predictedclass |-> predictedclass, maxtoshow |-> maxtoshow,
     errors |-> errors, i |-> i, ii |-> ii, exc |-> exc]

InitConc ==
    /\ y_test \in ConcLabelSeqs
    /\ Init

CallConc ==
    /\ pc = "idle"
    /\ \E p \in ConcPredSeqs, t \in ConcTrue, q \in ConcPredicted,
          m \in ConcCaps :
        /\ pred' = p
        /\ trueclass' = t
        /\ predictedclass' = q
        /\ maxtoshow' = m
    /\ pc' = "errors"
    /\ UNCHANGED <<globals, rest, errors, i, ii, output>>

\* the running caller is suspended and the other one resumes
Switch ==
    /\ other' = ThisThread
    /\ pc' = other.pc
    /\ pred' = other.pred
    /\ trueclass' = other.trueclass
    /\ predictedclass' = other.predictedclass
    /\ maxtoshow' = other.maxtoshow
    /\ errors' = other.errors
    /\ i' = other.i
    /\ ii' = other.ii
    /\ exc' = other.exc
    /\ UNCHANGED <<globals, stdout, figs, prev, kernel, gallery>>

NextConc == CallConc \/ Switch \/ ShowFailuresStep

SpecConc == InitConc /\ [][NextConc]_vars

\* what a call with predictions p, filters t, q and cap m selects when it
\* runs alone on y_test
MatchesFor(p, t, q) ==
    {k \in 0..(Len(y_test) - 1) :
        /\ Item(p, k) # Item(y_test, k)
        /\ t # None => Item(y_test, k) = t
        /\ q # None => Item(p, k) = q}

ExpectedFor(p, t, q, m) ==
    LET M == MatchesFor(p, t, q)
    IN  [n \in 1..Smaller(m, Cardinality(M)) |->
            LET k == CHOOSE j \in M : Cardinality({l \in M : l < j}) = n - 1
            IN  <<k, Item(p, k), Item(y_test, k)>>]

\* the tiles of a figure are at positions 1, 2, ... in this order
InOrder(fig) == \A n \in 1..Len(fig.axes) : fig.axes[n].pos = n

BothDone == pc = "done" /\ other.pc = "done"

\* C13 as stated: when two interleaved calls have both returned, each has
\* its own figure, with exactly the tiles it draws when it runs alone.
C13_Isolated ==
    BothDone =>
        /\ Len(figs) = 2
        /\ \E a, b \in 1..Len(figs) :
            /\ a # b
            /\ InOrder(figs[a]) /\ InOrder(figs[b])
            /\ EntriesOf(figs[a].axes) =
                 ExpectedFor(pred, trueclass, predictedclass, maxtoshow)
            /\ EntriesOf(figs[b].axes) =
                 ExpectedFor(other.pred, other.trueclass, other.predictedclass,
                             other.maxtoshow)

\* C13 amended: under every interleaving each call makes the decisions it
\* makes alone: the sample it is about to draw as tile ii + 1 is its
\* (ii + 1)-th matching failure, it stops after min(maxtoshow, m) tiles and
\* it raises nothing; errors, i and ii are locals and the inputs are only
\* read.  (Where the tile lands is not covered: that goes through pyplot.)
C13_SelectionIsLocal ==
    /\ pc \in {"subplot", "imshow", "title", "incr"} =>
          /\ Matching(i)
          /\ Rank(i) = ii
          /\ ii < maxtoshow
    /\ pc = "done" => ii = Smaller(maxtoshow, Cardinality(Matches))
    /\ pc # "raised" /\ exc = None
    /\ InCall => errors = Array(NotEqual(pred, y_test)) \/ pc = "errors"

\* both calls have returned, each selected a sample, and all tiles are in
\* the figure of the call that opened its figure last
C13_Witness ==
    /\ BothDone
    /\ ii >= 1
    /\ other.ii >= 1
    /\ Len(figs) = 2
    /\ figs[1].axes = <<>>

\* C14: a call that does not pass maxtoshow runs with the cap 10; a valid
\* call with the cap 10 selects the first 10 matching failures (all of them
\* when there are fewer), and without filters these are the first 10
\* misclassified samples of any class.
C14_DefaultCap ==
    /\ [][CallDefault => maxtoshow' = 10]_vars
    /\ []((ValidCall /\ pc = "done" /\ maxtoshow = 10) =>
            /\ Len(Result) <= 10
            /\ Result = ExpectedFor(pred, trueclass, predictedclass, 10)
            /\ (trueclass = None /\ predictedclass = None) =>
                  /\ Len(Result) = Smaller(10,
                        Cardinality({k \in 0..(Len(y_test) - 1) :
                                        Item(pred, k) # Item(y_test, k)}))
                  /\ \A k \in 0..(Len(y_test) - 1) :
                        (Item(pred, k) # Item(y_test, k)
                           /\ Cardinality({j \in 0..(k - 1) :
                                 Item(pred, j) # Item(y_test, j)}) < 10)
                        => \E n \in 1..Len(Result) : Result[n][1] = k)

\* eleven failures of two predicted classes, no filter, cap 10: the call
\* has returned with ten tiles, the last one for index 10
C14_Witness ==
    /\ pc = "done"
    /\ y_test = LongG
    /\ pred = LongP
    /\ trueclass = None
    /\ predictedclass = None
    /\ maxtoshow = 10
    /\ Cardinality(Matches) = 11
    /\ Len(Result) = 10
    /\ Result[10][1] = 10
    /\ i = 11

\* the statements that read errors[i], y_test[i], pred[i] or X_test[i,:]
Reading == {"iserror", "trueclass", "predictedclass", "imshow", "title"}

\* C15: the scan short-circuits. No statement reads errors, a label or a
\* row once maxtoshow tiles are complete, and the loop is left with i at
\* most one past the index of the last tile. Indices are visited one by
\* one from 0 upwards, each visit below the cap reads the error flag of
\* that index once, and a scan that ends below the cap has visited every
\* index 0..len-1.
C15_ShortCircuit ==
    /\ [](pc \in Reading => ii < maxtoshow)
    /\ []((ValidCall /\ Len(Result) >= maxtoshow) =>
            /\ pc \notin Reading
            /\ Len(Result) = maxtoshow
            /\ i <= Result[Len(Result)][1] + 1)
    /\ [][pc' = "cap" => (pc = "for" /\ i' = i + 1)]_vars
    /\ [][pc' = "iserror" => (pc = "cap" /\ i' = i /\ ii < maxtoshow)]_vars
    /\ [][(pc = "cap" /\ ii < maxtoshow) => pc' = "iserror"]_vars
    /\ []((pc = "done" /\ ii < maxtoshow) => i = Len(X_test) - 1)

\* the cap was reached at index 1 of five samples although index 4 is a
\* failure as well: the loop was left at index 2
C15_Witness ==
    /\ pc = "done"
    /\ y_test = ExampleG
    /\ pred = ExampleP
    /\ trueclass = None
    /\ predictedclass = None
    /\ maxtoshow = 1
    /\ Len(Result) = 1
    /\ Result[1][1] = 1
    /\ i = 2
    /\ Item(errors.data, 4)

\* C16: every call returns or raises; the loop index stays within
\* 0..len(y_test)-1, every visit of the loop body is at a larger index than
\* the one before, and a continue taken for a filtered-out failure leaves
\* the frame alone and is followed by the next index or the end of the loop.
C16_Terminates ==
    /\ (pc = "errors") ~> (pc \in {"done", "raised"})
    /\ [](InCall => i \in Unbound..(Len(y_test) - 1))
    /\ [][pc' = "cap" => i' > i]_vars
    /\ [][(pc \in {"trueclass", "predictedclass"} /\ pc' \notin {pc, "raised"})
            => \/ pc' \in {"predictedclass", "subplot"}
               \/ pc' = "for" /\ UNCHANGED <<frame, figs>>]_vars
    /\ [][(pc = "for" /\ pc' # "for")
            => \/ pc' = "cap" /\ i' = i + 1
               \/ pc' = "done" /\ i = Len(X_test) - 1]_vars

\* a call that took the continue of the ground-truth filter at index 4 and
\* returned after the last index
C16_Witness ==
    /\ pc = "done"
    /\ y_test = ExampleG
    /\ pred = ExampleP
    /\ trueclass = "1"
    /\ predictedclass = None
    /\ maxtoshow = 2
    /\ Item(errors.data, 4)
    /\ Item(y_test, 4) # trueclass
    /\ Len(Result) = 1
    /\ i = 4

\* C17: the title of a tile is the prediction at the index of the sample
\* the tile shows, then the ground truth at that index in parentheses; a
\* shown sample being a failure, the two labels differ, so the title is
\* never the swapped one.
C17_TitleFormat ==
    InCall =>
        \A n \in 1..Len(Tiles) :
            LET ax == Tiles[n] IN
            Titled(ax) =>
                /\ Drawn(ax)
                /\ InRange(pred, ax.image.row)
                /\ InRange(y_test, ax.image.row)
                /\ ax.title = <<Item(pred, ax.image.row), " (",
                                Item(y_test, ax.image.row), ")">>
                /\ ax.title # <<Item(y_test, ax.image.row), " (",
                                Item(pred, ax.image.row), ")">>

\* two tiles with different labels: "2 (1)" for index 1 and "1 (0)" for
\* index 4
C17_Witness ==
    /\ pc = "done"
    /\ y_test = ExampleG
    /\ pred = ExampleP
    /\ Len(Tiles) = 2
    /\ Tiles[1].image.row = 1
    /\ Tiles[1].title = <<"2", " (", "1", ")">>
    /\ Tiles[2].image.row = 4
    /\ Tiles[2].title = <<"1", " (", "0", ")">>

\* the statements that render a tile
Rendering == {"subplot", "imshow", "title", "incr"}

\* C20: while a tile is rendered 0 <= ii < maxtoshow, and ii is the number
\* of tiles completed before it; the n-th tile of the figure is at position
\* n of a 1 x maxtoshow grid, so the positions are 1, 2, ... without a gap,
\* none exceeds maxtoshow and none is used twice; the counter never runs
\* ahead of the tiles.
C20_TilePositions ==
    /\ pc \in Rendering => (0 <= ii /\ ii < maxtoshow /\ ii + 1 \in 1..maxtoshow)
    /\ pc \in {"imshow", "title", "incr"} => Len(Tiles) = ii + 1
    /\ pc \in {"for", "cap", "iserror", "trueclass", "predictedclass",
               "subplot", "done"} => Len(Tiles) = ii
    /\ InCall =>
          \A n \in 1..Len(Tiles) :
              /\ Tiles[n].pos = n
              /\ Tiles[n].nrows = 1
              /\ Tiles[n].ncols = maxtoshow
              /\ Tiles[n].pos \in 1..maxtoshow
              /\ \A k \in 1..Len(Tiles) : Tiles[k].pos = Tiles[n].pos => k = n

\* the failures at the indices 1 and 4 were drawn at the positions 1 and 2
\* of a grid of ten, and the counter stands at 2
C20_Witness ==
    /\ pc = "done"
    /\ y_test = ExampleG
    /\ pred = ExampleP
    /\ maxtoshow = DefaultMaxToShow
    /\ ii = 2
    /\ Len(Tiles) = 2
    /\ Tiles[1].image.row = 1 /\ Tiles[1].pos = 1
    /\ Tiles[2].image.row = 4 /\ Tiles[2].pos = 2

----------------------------------------------------------------------------
(* The notebooks as sequences of cells.  A session runs cells one at a
   time; a cell binds the test partition, binds a name to the predictions
   of a fitted classifier, or calls show_failures with a bound name.  The
   data set and the classifiers are external: the model draws the test
   partition from a small pool of samples and the fitted classifier from
   three label functions. *)

TestSize == 3      \* samples of a test partition (test_size=10000 in the code)
SliceLen == 2      \* the leading samples nn predicts first (X_test[:200,:]);
                   \* fewer than a test partition holds, as in the code

\* the data set: one more sample than a test partition holds
Pool == {Row(k) : k \in 0..TestSize}

\* mnist['target'] for the sample of a row
Target(r) ==
    LET d == (r - Row(0)) % 3
    IN  IF d = 0 THEN "0" ELSE IF d = 1 THEN "1" ELSE "2"

\* TestSize samples of the pool from sample s on, in their order or reversed
Forward(s)  == [k \in 1..TestSize |-> Row(s + k - 1)]
Backward(s) == [k \in 1..TestSize |-> Row(s + TestSize - k)]

\* train_test_split(..., test_size=..., shuffle=True): TestSize different
\* samples in some order; the model draws four of these partitions
Partitions == {Forward(0), Forward(1), Backward(0), Backward(1)}

\* X[train_len:] : the samples after the training part, in their order
TailPartition == Forward(1)

TargetsOf(X) == [k \in 1..Len(X) |-> Target(X[k])]

\* fitted classifiers: one that is always right, one that answers "0" for
\* every sample, one that is always wrong
Clfs == {"right", "zero", "wrong"}

Classify(c, r) ==
    IF c = "right" THEN Target(r)
    ELSE IF c = "zero" THEN "0"
    ELSE Target(r + 1)

\* clf.predict(X): one label per row of X
Predict(c, X) == [k \in 1..Len(X) |-> Classify(c, X[k])]

\* X[:n,:]
Slice(X, n) == SubSeq(X, 1, Smaller(n, Len(X)))

\* the cells, by what they do
SplitOf(shuffle) ==
    [op |-> "split", name |-> None, sliced |-> FALSE, shuffle |-> shuffle,
     t |-> None, q |-> None]
PredictOf(name, sliced) ==
    [op |-> "predict", name |-> name, sliced |-> sliced, shuffle |-> FALSE,
     t |-> None, q |-> None]
ShowOf(name, t, q) ==
    [op |-> "show", name |-> name, sliced |-> FALSE, shuffle |-> FALSE,
     t |-> t, q |-> q]

\* sklearn-mnist-lc.ipynb
CellsLC ==
    << SplitOf(FALSE),
       PredictOf("pred_lr", FALSE),
       ShowOf("pred_lr", None, None),
       ShowOf("pred_lr", "5", None),
       ShowOf("pred_lr", None, "0"),
       ShowOf("pred_lr", "0", "2"),
       PredictOf("pred_lsvm", FALSE),
       ShowOf("pred_lsvm", None, None),
       ShowOf("pred_lsvm", "5", None),
       ShowOf("pred_lsvm", None, "0"),
       ShowOf("pred_lsvm", "0", "2") >>

\* variant: the call cell passes the predictions for the first samples
CellsNN_sliced ==
    << SplitOf(TRUE),
       PredictOf("predictions", TRUE),
       PredictOf("predictions_reduced", FALSE),
       ShowOf("predictions", None, None) >>

\* sklearn-mnist-nn.ipynb
CellsNN ==
    << SplitOf(TRUE),
       PredictOf("predictions", TRUE),
       PredictOf("predictions_reduced", FALSE),
       ShowOf("predictions_reduced", None, None) >>

\* sklearn-mnist-ul.ipynb, the classification part
CellsUL ==
    << SplitOf(TRUE),
       PredictOf("predictions", FALSE),
       ShowOf("predictions", None, None),
       ShowOf("predictions", "5", None),
       PredictOf("predictions", FALSE),
       ShowOf("predictions", None, None),
       ShowOf("predictions", "5", None) >>

Notebooks == {"lc", "nn", "ul"}

CellsOf(nb) ==
    IF nb = "lc" THEN CellsLC ELSE IF nb = "nn" THEN CellsNN ELSE CellsUL

\* no cell has run: the test partition is not bound yet (shown as empty)
InitKernel ==
    /\ y_test = <<>>
    /\ X_test = <<>>
    /\ pc = "idle"
    /\ IdleFrame
    /\ stdout = <<>>
    /\ figs = <<>>
    /\ exc = None
    /\ prev = NoCall
    /\ other = IdleThread
    /\ kernel \in {[NoKernel EXCEPT !.notebook = nb] : nb \in Notebooks}
    /\ gallery = NoGallery

\* variant: the split cell binds X_test only and leaves y_test as it is
RunSplit_keeplabels(c, nxt) ==
    /\ c.op = "split"
    /\ X_test' \in (IF c.shuffle THEN Partitions ELSE {TailPartition})
    /\ y_test' = IF y_test = <<>> THEN TargetsOf(X_test') ELSE y_test
    /\ kernel' = [kernel EXCEPT !.cell = nxt]
    /\ UNCHANGED <<pc, frame, output, prev, other, gallery>>

\* the data cell: X_test and y_test are bound to the samples and the labels
\* of one test partition
RunSplit(c, nxt) ==
    /\ c.op = "split"
    /\ X_test' \in (IF c.shuffle THEN Partitions ELSE {TailPartition})
    /\ y_test' = TargetsOf(X_test')
    /\ kernel' = [kernel EXCEPT !.cell = nxt]
    /\ UNCHANGED <<pc, frame, output, prev, other, gallery>>

\* name = clf.predict(X_test)  or  name = clf.predict(X_test[:200,:]);
\* X_test not bound is a NameError.  The observer notes the partition the
\* predictions are made for.
RunPredict(c, nxt) ==
    /\ c.op = "predict"
    /\ IF X_test = <<>>
       THEN /\ Raise("NameError")
            /\ kernel' = [kernel EXCEPT !.cell = nxt]
            /\ prev' = prev
       ELSE \E clf \in Clfs :
            LET v == Predict(clf, IF c.sliced THEN Slice(X_test, SliceLen)
                                              ELSE X_test)
            IN  /\ kernel' = [kernel EXCEPT !.cell = nxt,
                                            !.names[c.name] = Bound(v)]
                /\ prev' = [NoCall EXCEPT !.outcome = "predicted",
                                          !.y = y_test, !.X = X_test, !.p = v]
                /\ UNCHANGED <<pc, exc>>
    /\ UNCHANGED <<globals, frame, stdout, figs, other, gallery>>

\* show_failures(name, trueclass=t, predictedclass=q): the arguments are
\* bound and the call starts; a name that is not bound (the argument, or
\* y_test read by the first statement of the helper) is a NameError
RunShow(c, nxt) ==
    /\ c.op = "show"
    /\ kernel' = [kernel EXCEPT !.cell = nxt]
    /\ IF ~kernel.names[c.name].bound \/ y_test = <<>>
       THEN /\ Raise("NameError")
            /\ UNCHANGED frame
       ELSE /\ pred' = kernel.names[c.name].value
            /\ trueclass' = c.t
            /\ predictedclass' = c.q
            /\ maxtoshow' = DefaultMaxToShow
            /\ pc' = "errors"
            /\ UNCHANGED <<errors, i, ii, exc>>
    /\ UNCHANGED <<globals, stdout, figs, prev, other, gallery>>

\* run cell c; nxt is the number of cells the in-order run has done then
RunCell(c, nxt) == RunSplit(c, nxt) \/ RunPredict(c, nxt) \/ RunShow(c, nxt)

\* Jupyter runs whichever cell the user picks, and any number of times
RunAnyCell ==
    /\ pc = "idle"
    /\ \E n \in 1..Len(CellsOf(kernel.notebook)) :
          RunCell(CellsOf(kernel.notebook)[n], kernel.cell)

NextKernel == RunAnyCell \/ CellEnd \/ ShowFailuresStep

SpecKernel == InitKernel /\ [][NextKernel]_vars

\* the call has computed errors and has not raised
PastErrors == pc \notin {"idle", "errors", "raised"}

\* C21: the helper reads y_test and X_test as they are bound when it runs.
\* In every order of running the cells, errors is the comparison of the
\* predictions passed with the labels of the partition bound now, every
\* tile shows a row of the X_test bound now with the label of that row, and
\* the prediction in its title is the one passed, which was made for the
\* partition bound when the predict cell ran.
C21_CallTimeBinding ==
    PastErrors =>
        /\ y_test = TargetsOf(X_test)
        /\ errors = Array([k \in 1..Len(y_test) |-> pred[k] # Target(X_test[k])])
        /\ pred = prev.p => \E clf \in Clfs : pred = Predict(clf, prev.X)
        /\ \A n \in 1..Len(Tiles) :
              LET ax == Tiles[n] IN
              /\ Drawn(ax) =>
                    ax.image.pixels = Reshape(Item(X_test, ax.image.row))
              /\ Titled(ax) =>
                    /\ ShownTrue(ax) = Target(Item(X_test, ax.image.row))
                    /\ ShownPred(ax) = Item(pred, ax.image.row)

\* the split cell of nn was run again between predict and show_failures:
\* the predictions of a classifier that is always right are shown as
\* failures against the labels of the new partition
C21_Witness ==
    /\ pc = "done"
    /\ kernel.notebook = "nn"
    /\ prev.outcome = "predicted"
    /\ pred = prev.p
    /\ pred = Predict("right", prev.X)
    /\ prev.X # X_test
    /\ prev.y # y_test
    /\ errors # Array(NotEqual(pred, prev.y))
    /\ Len(Result) >= 1
    /\ ShownPred(Tiles[1]) = Item(prev.y, Tiles[1].image.row)
    /\ ShownTrue(Tiles[1]) = Item(y_test, Tiles[1].image.row)

----------------------------------------------------------------------------
(* A session that runs the cells of its notebook once, from top to bottom *)

RunNextCell ==
    /\ pc = "idle"
    /\ kernel.cell < Len(CellsOf(kernel.notebook))
    /\ RunCell(CellsOf(kernel.notebook)[kernel.cell + 1], kernel.cell + 1)

NextInOrder == RunNextCell \/ CellEnd \/ ShowFailuresStep

SpecInOrder == InitKernel /\ [][NextInOrder]_vars

\* C22: with the cells of a notebook run in order, every call of
\* show_failures gets predictions as long as the y_test in scope and a
\* positive cap, no name is missing and no call raises; in nn the
\* predictions passed are predictions_reduced, while predictions, made for
\* the leading samples only, is shorter than y_test.
C22_LengthsAgreeInOrder ==
    /\ pc # "raised"
    /\ exc = None
    /\ InCall =>
          /\ ValidCall
          /\ Len(pred) = Len(y_test)
          /\ Len(y_test) = TestSize
          /\ Len(X_test) = Len(y_test)
          /\ kernel.cell >= 1
          /\ CellsOf(kernel.notebook)[kernel.cell].op = "show"
          /\ pred = kernel.names[CellsOf(kernel.notebook)[kernel.cell].name].value
    /\ (InCall /\ kernel.notebook = "nn") =>
          /\ pred = kernel.names["predictions_reduced"].value
          /\ kernel.names["predictions"].bound
          /\ Len(kernel.names["predictions"].value) = SliceLen
          /\ Len(kernel.names["predictions"].value) # Len(y_test)

\* the last cell of nn has returned with a tile; the predictions for the
\* leading samples are bound and shorter than y_test
C22_Witness ==
    /\ pc = "done"
    /\ kernel.notebook = "nn"
    /\ kernel.cell = Len(CellsNN)
    /\ Len(kernel.names["predictions"].value) < Len(y_test)
    /\ Len(pred) = Len(y_test)
    /\ Len(Result) >= 1

----------------------------------------------------------------------------
(* The clustering and anomaly-detection part of sklearn-mnist-ul: four
   cells fit an estimator on X, and after each of them a gallery cell
   copies samples into a mosaic img, one row of tiles per cluster (or per
   anomaly label), and shows it.  The estimators are external: the model
   draws the labels they assign from a few labelings of X. *)

GallerySize == 70      \* samples in X (mnist['data'][:10000] in the code)

NClusters  == 10        \* n_clusters=10
NImgPerRow == 32        \* n_img_per_row = 32
AnoRows    == 2         \* range(2), np.zeros((28 * 2, ...))
\* variant: anolabels = [1, -1]
AnoLabels_swapped == <<1, 0 - 1>>

AnoLabels  == <<0 - 1, 1>>     \* anolabels = [-1, 1]

\* X = mnist['data'][:10000]
GalleryX == Rows(GallerySize)

\* labels_ of a fitted clustering: one cluster label per sample of X
ClusterLabelings ==
    { [k \in 1..GallerySize |-> IF k <= 5 THEN 0 ELSE 1],
      [k \in 1..GallerySize |-> k % NClusters],
      [k \in 1..GallerySize |-> IF k <= 5 THEN 1 ELSE 2] }

\* predict / fit_predict of an anomaly detector: -1 (anomaly) or 1 per sample
AnomalyLabelings ==
    { [k \in 1..GallerySize |-> IF k % 20 = 0 THEN 0 - 1 ELSE 1],
      [k \in 1..GallerySize |-> 1],
      [k \in 1..GallerySize |-> IF k <= 30 THEN 0 - 1 ELSE 1] }

\* X[mask, :] for mask = (labels == v): the rows of X with label v, in order
Positions(labels, v) ==
    SelectSeq([k \in 1..Len(labels) |-> k], LAMBDA k : labels[k] = v)
Select(X, labels, v) ==
    [n \in 1..Len(Positions(labels, v)) |-> X[Positions(labels, v)[n]]]

\* np.zeros((28 * nrows, 28 * ncols)) as tiles of 28 x 28, each named by the
\* pixel position of its upper left corner
Origins(nrows, ncols) ==
    {<<TileRows * r, TileCols * c>> : r \in 0..(nrows - 1), c \in 0..(ncols - 1)}
Blank == Reshape(0)
Zeros(nrows, ncols) == [o \in Origins(nrows, ncols) |-> Blank]

ClusterKinds == {"kmeans", "hclust"}
AnomalyKinds == {"isofor", "lof"}

\* everything the helper and the classification cells use
helper == <<globals, pc, frame, output, prev, other, kernel>>

InitGallery ==
    /\ InitKernel
    /\ kernel.notebook = "ul"

\* n_clusters=10 ; kmeans = KMeans(n_clusters=n_clusters) ; kmeans.fit(X)
FitKMeans ==
    /\ gallery.pc = "idle"
    /\ \E l \in ClusterLabelings :
          gallery' = [gallery EXCEPT
                         !.n_clusters = NClusters,
                         !.kmeans = [class |-> "KMeans", labels_ |-> l]]
    /\ UNCHANGED helper

\* n_clusters=10 ; hclust = AgglomerativeClustering(...) ; hclust.fit(X)
FitHclust ==
    /\ gallery.pc = "idle"
    /\ \E l \in ClusterLabelings :
          gallery' = [gallery EXCEPT
                         !.n_clusters = NClusters,
                         !.hclust = [class |-> "AgglomerativeClustering",
                                     labels_ |-> l]]
    /\ UNCHANGED helper

\* isofor = IsolationForest(...) ; predictions = isofor.fit(X).predict(X)
FitIsofor ==
    /\ gallery.pc = "idle"
    /\ \E l \in AnomalyLabelings :
          gallery' = [gallery EXCEPT
                         !.isofor = [class |-> "IsolationForest", labels_ |-> l],
                         !.predictions = l]
    /\ UNCHANGED helper

\* lof= IsolationForest(...) ; predictions = lof.fit_predict(X)
FitLof ==
    /\ gallery.pc = "idle"
    /\ \E l \in AnomalyLabelings :
          gallery' = [gallery EXCEPT
                         !.lof = [class |-> "IsolationForest", labels_ |-> l],
                         !.predictions = l]
    /\ UNCHANGED helper

\* the labels a gallery cell reads: kmeans.labels_, hclust.labels_ or
\* predictions; empty while the name is not bound
LabelsOf(kind) ==
    IF kind = "kmeans" THEN gallery.kmeans.labels_
    ELSE IF kind = "hclust" THEN gallery.hclust.labels_
    ELSE gallery.predictions

\* the number of rows of a gallery: n_clusters, or 2
RowsOf(kind) == IF kind \in ClusterKinds THEN gallery.n_clusters ELSE AnoRows

\* the label whose samples go to row r: r itself, or anolabels[r]
RowLabel(kind, r) == IF kind \in ClusterKinds THEN r ELSE Item(gallery.anolabels, r)

\* a gallery cell starts:  n_img_per_row = 32 ; img = np.zeros(...) ;
\* anolabels = [-1, 1]
\* n_clusters not bound is a NameError
GalleryStart ==
    /\ gallery.pc = "idle"
    /\ \E kind \in ClusterKinds \cup AnomalyKinds :
          IF kind \in ClusterKinds /\ gallery.n_clusters = Unbound
          THEN gallery' = [gallery EXCEPT !.pc = "raised", !.kind = kind,
                                          !.n_img_per_row = NImgPerRow,
                                          !.exc = "NameError"]
          ELSE gallery' = [gallery EXCEPT
                              !.pc = "for_i", !.kind = kind,
                              !.n_img_per_row = NImgPerRow,
                              !.img = Zeros(RowsOf(kind), NImgPerRow),
                              !.anolabels = IF kind \in AnomalyKinds
                                            THEN AnoLabels ELSE @,
                              !.i = Unbound, !.j = Unbound]
    /\ UNCHANGED helper

\* for i in range(n_clusters):  ix = 28 * i ;  X_cluster = X[labels==i,:]
\* the labels not bound is a NameError, outside the try
GalleryRow ==
    /\ gallery.pc = "for_i"
    /\ IF gallery.i + 1 < RowsOf(gallery.kind)
       THEN IF LabelsOf(gallery.kind) = <<>>
            THEN gallery' = [gallery EXCEPT !.i = @ + 1, !.pc = "raised",
                                            !.exc = "NameError"]
            ELSE gallery' = [gallery EXCEPT
                                !.i = @ + 1,
                                !.ix = TileRows * (gallery.i + 1),
                                !.X_sub = Select(GalleryX, LabelsOf(gallery.kind),
                                              RowLabel(gallery.kind, gallery.i + 1)),
                                !.j = Unbound,
                                !.pc = "for_j"]
       ELSE gallery' = [gallery EXCEPT !.pc = "show"]
    /\ UNCHANGED helper

\* for j in range(n_img_per_row):  iy = 28 * j
GalleryCol ==
    /\ gallery.pc = "for_j"
    /\ IF gallery.j + 1 < gallery.n_img_per_row
       THEN gallery' = [gallery EXCEPT !.j = @ + 1,
                                       !.iy = TileCols * (gallery.j + 1),
                                       !.pc = "assign"]
       ELSE gallery' = [gallery EXCEPT !.pc = "for_i"]
    /\ UNCHANGED helper

\* variant: the IndexError is not caught and ends the cell
GalleryAssign_uncaught ==
    /\ gallery.pc = "assign"
    /\ LET n == gallery.i * gallery.n_img_per_row + gallery.j IN
       IF InRange(gallery.X_sub, n)
       THEN gallery' = [gallery EXCEPT
                           !.img[<<gallery.ix, gallery.iy>>] =
                               Reshape(Item(gallery.X_sub, n)),
                           !.pc = "for_j"]
       ELSE gallery' = [gallery EXCEPT !.pc = "raised", !.exc = "IndexError"]
    /\ UNCHANGED helper

\* img[ix:ix + 28, iy:iy + 28] = X_cluster[i * n_img_per_row + j,:].reshape(28,28)
\* an index past the end is an IndexError, which  except IndexError: pass
\* catches: the inner loop is left and the loop over i goes on
GalleryAssign ==
    /\ gallery.pc = "assign"
    /\ LET n == gallery.i * gallery.n_img_per_row + gallery.j IN
       IF InRange(gallery.X_sub, n)
       THEN gallery' = [gallery EXCEPT
                           !.img[<<gallery.ix, gallery.iy>>] =
                               Reshape(Item(gallery.X_sub, n)),
                           !.pc = "for_j"]
       ELSE gallery' = [gallery EXCEPT !.pc = "for_i"]
    /\ UNCHANGED helper

\* plt.figure(figsize=(12, 12)) ; plt.imshow(img, cmap='gray') ; ...
GalleryShow ==
    /\ gallery.pc = "show"
    /\ gallery' = [gallery EXCEPT !.shown = gallery.img, !.pc = "done"]
    /\ UNCHANGED helper

\* the gallery cell is over; its names stay bound
GalleryEnd ==
    /\ gallery.pc \in {"done", "raised"}
    /\ gallery' = [gallery EXCEPT !.pc = "idle", !.exc = None, !.shown = <<>>]
    /\ UNCHANGED helper

GalleryStep == GalleryRow \/ GalleryCol \/ GalleryAssign \/ GalleryShow

NextGallery ==
    \/ FitKMeans \/ FitHclust \/ FitIsofor \/ FitLof
    \/ GalleryStart \/ GalleryStep \/ GalleryEnd

SpecGallery == InitGallery /\ [][NextGallery]_vars

\* the tile of the mosaic at row r, column c
TileAt(img, r, c) == img[<<TileRows * r, TileCols * c>>]

\* a gallery cell is between two rows of its mosaic, or past its loops
BetweenRows == gallery.pc \in {"for_i", "show", "done"}

\* the cluster label (or prediction) of the sample shown by a tile
LabelOfTile(t) == LabelsOf(gallery.kind)[t.data - Row(0) + 1]

\* C23: in a cluster gallery, tile (r, c) is blank or holds member number
\* r * n_img_per_row + c of cluster r, a sample whose cluster label is r:
\* this holds of the whole mosaic whenever a row is finished, and within a
\* row the only change to the mosaic is one such tile of row i.
\* An index past the members of cluster i raises nothing out of the cell:
\* the mosaic and i are left as they are and the loop over i goes on, so
\* when the loops are over every row has been processed and the blank tiles
\* of a row are exactly those past its members.
C23_ClusterGallery ==
    /\ [][(gallery.kind \in ClusterKinds /\ gallery'.img # gallery.img
              /\ gallery.pc # "idle")
          => LET n == gallery.i * NImgPerRow + gallery.j
                 members == Select(GalleryX, LabelsOf(gallery.kind), gallery.i)
             IN  /\ gallery.pc = "assign"
                 /\ InRange(members, n)
                 /\ LabelsOf(gallery.kind)[Item(members, n) - Row(0) + 1] = gallery.i
                 /\ gallery'.img =
                       [gallery.img EXCEPT
                           ![<<TileRows * gallery.i, TileCols * gallery.j>>] =
                               Reshape(Item(members, n))]]_vars
    /\ []((BetweenRows /\ gallery.kind \in ClusterKinds) =>
            \A r \in 0..(NClusters - 1) :
               LET members == Select(GalleryX, LabelsOf(gallery.kind), r) IN
               \A c \in 0..(NImgPerRow - 1) :
                  LET t == TileAt(gallery.img, r, c)
                      n == r * NImgPerRow + c
                  IN  /\ t # Blank =>
                            /\ InRange(members, n)
                            /\ t = Reshape(Item(members, n))
                            /\ LabelOfTile(t) = r
                      /\ (gallery.pc \in {"show", "done"} /\ InRange(members, n))
                            => t # Blank)
    /\ [](gallery.kind \in ClusterKinds => gallery.exc # "IndexError")
    /\ []((gallery.kind \in ClusterKinds /\ gallery.pc \in {"show", "done"}) =>
            gallery.i = NClusters - 1)
    /\ [][(/\ gallery.kind \in ClusterKinds
           /\ gallery.pc = "assign"
           /\ ~InRange(gallery.X_sub, gallery.i * gallery.n_img_per_row + gallery.j))
          => /\ gallery'.pc = "for_i"
             /\ gallery'.img = gallery.img
             /\ gallery'.i = gallery.i]_vars

\* cluster 0 has five members and cluster 1 all others: row 0 shows the
\* five and stays blank from column 5 on, row 1 shows the members 32..63 of
\* cluster 1, row 2 is blank
C23_Witness ==
    /\ gallery.pc = "done"
    /\ gallery.kind = "kmeans"
    /\ gallery.kmeans.labels_ = [k \in 1..GallerySize |-> IF k <= 5 THEN 0 ELSE 1]
    /\ TileAt(gallery.img, 0, 4) = Reshape(Row(4))
    /\ TileAt(gallery.img, 0, 5) = Blank
    /\ TileAt(gallery.img, 1, 0) = Reshape(Row(37))
    /\ TileAt(gallery.img, 1, 31) = Reshape(Row(68))
    /\ TileAt(gallery.img, 2, 0) = Blank
    /\ gallery.shown = gallery.img

\* the prediction that belongs to row r of an anomaly gallery: -1 (anomaly)
\* for the upper row, 1 (normal) for the lower row
AnoRowLabel(r) == IF r = 0 THEN 0 - 1 ELSE 1

\* C24: in an anomaly gallery, a tile of the upper row is blank or shows a
\* sample predicted -1, a tile of the lower row is blank or shows a sample
\* predicted 1: this holds of the whole mosaic whenever a row is finished,
\* and within a row the only change to the mosaic is one such tile of row
\* i.  An index past the samples of one row raises nothing out of the cell,
\* the loop goes on, and when it is over both rows have been processed:
\* each shows exactly the samples it has from number i * n_img_per_row on.
C24_AnomalyGallery ==
    /\ [][(gallery.kind \in AnomalyKinds /\ gallery'.img # gallery.img
              /\ gallery.pc # "idle")
          => LET n == gallery.i * NImgPerRow + gallery.j
                 members == Select(GalleryX, gallery.predictions,
                                   AnoRowLabel(gallery.i))
             IN  /\ gallery.pc = "assign"
                 /\ gallery.i \in {0, 1}
                 /\ InRange(members, n)
                 /\ gallery.predictions[Item(members, n) - Row(0) + 1]
                       = AnoRowLabel(gallery.i)
                 /\ gallery'.img =
                       [gallery.img EXCEPT
                           ![<<TileRows * gallery.i, TileCols * gallery.j>>] =
                               Reshape(Item(members, n))]]_vars
    /\ []((BetweenRows /\ gallery.kind \in AnomalyKinds) =>
            \A r \in {0, 1} :
               LET members == Select(GalleryX, gallery.predictions, AnoRowLabel(r)) IN
               \A c \in 0..(NImgPerRow - 1) :
                  LET t == TileAt(gallery.img, r, c)
                      n == r * NImgPerRow + c
                  IN  /\ t # Blank =>
                            /\ InRange(members, n)
                            /\ t = Reshape(Item(members, n))
                            /\ LabelOfTile(t) = AnoRowLabel(r)
                            /\ LabelOfTile(t) # AnoRowLabel(1 - r)
                      /\ (gallery.pc \in {"show", "done"} /\ InRange(members, n))
                            => t # Blank)
    /\ [](gallery.kind \in AnomalyKinds => gallery.exc # "IndexError")
    /\ []((gallery.kind \in AnomalyKinds /\ gallery.pc \in {"show", "done"}) =>
            gallery.i = 1)
    /\ [][(/\ gallery.kind \in AnomalyKinds
           /\ gallery.pc = "assign"
           /\ ~InRange(gallery.X_sub, gallery.i * gallery.n_img_per_row + gallery.j))
          => /\ gallery'.pc = "for_i"
             /\ gallery'.img = gallery.img
             /\ gallery'.i = gallery.i]_vars

\* three anomalies among 70 samples: the upper row shows the three and is
\* blank from column 3 on, and the lower row is still drawn, full of
\* samples predicted 1
C24_Witness ==
    /\ gallery.pc = "done"
    /\ gallery.kind = "isofor"
    /\ Len(Select(GalleryX, gallery.predictions, 0 - 1)) = 3
    /\ TileAt(gallery.img, 0, 2) # Blank
    /\ LabelOfTile(TileAt(gallery.img, 0, 2)) = 0 - 1
    /\ TileAt(gallery.img, 0, 3) = Blank
    /\ TileAt(gallery.img, 1, 0) # Blank
    /\ LabelOfTile(TileAt(gallery.img, 1, 0)) = 1
    /\ TileAt(gallery.img, 1, 31) # Blank

\* C25: once the cell of the step "Local outlier factor" has run, the
\* estimator it has bound to lof is a LocalOutlierFactor, and so another
\* estimator than the IsolationForest of the step before.
C25_LofStepUsesLocalOutlierFactor ==
    gallery.lof.class # None =>
        /\ gallery.lof.class = "LocalOutlierFactor"
        /\ gallery.lof.class # "IsolationForest"
        /\ gallery.isofor.class # None => gallery.lof.class # gallery.isofor.class

====
